---- MODULE Spec2Model ----
(***************************************************************************)
(* Model of plugins/market-research-idea-validation/hooks/update-summary.py *)
(*                                                                         *)
(* Text is a sequence of characters.  A character is a one-character       *)
(* string, except that a few literals that the program only ever handles   *)
(* as a whole are one element: ".md", "research/", "output/", "M+M",       *)
(* "Claude code stuff", "Research", "Output".  The newline is "\n".        *)
(***************************************************************************)
EXTENDS Integers, Sequences, FiniteSets, TLC

VARIABLES
    summary,         \* SUMMARY.md: its text, or NoFile
    backup,          \* SUMMARY.md.bak: its text, or NoFile
    tmp,             \* SUMMARY.md.tmp: its text, or NoFile
    research,        \* file names directly inside research/
    output,          \* file names directly inside output/
    pc,              \* position of the running update_summary ("idle": none)
    dry_run,         \* update_summary's argument
    content,         \* local of update_summary: text read from SUMMARY.md
    research_files,  \* local: find_markdown_files(RESEARCH_DIR)
    output_files,    \* local: find_markdown_files(OUTPUT_DIR)
    updated_content, \* local: text to be written
    ret,             \* return value of the run that has just ended, if any
    writes,          \* number of times SUMMARY.md was replaced
    last,            \* the last event: "init", "add" (a source file was added),
                     \* "run" or "dry" (a run of that kind has returned)
    initial          \* SUMMARY.md as it was before the first run

vars == <<summary, backup, tmp, research, output, pc, dry_run, content,
          research_files, output_files, updated_content, ret, writes,
          last, initial>>

fsvars == <<summary, backup, tmp>>
locals == <<content, research_files, output_files, updated_content>>

-----------------------------------------------------------------------------
(* Bounds *)

MaxLines == 3
MaxWrites == 2
MaxTrailing == 2

-----------------------------------------------------------------------------
(* Text helpers: str.split, str.join, str.strip, str.startswith, `in' *)

NL == "\n"
\* a file that does not exist: an element no text contains
NoFile == <<"(no file)">>
NoText == <<>>

RECURSIVE IndexFrom(_, _, _)
IndexFrom(s, c, i) ==
    IF i > Len(s) THEN 0
    ELSE IF s[i] = c THEN i
    ELSE IndexFrom(s, c, i + 1)

RECURSIVE Split(_)
Split(s) ==
    LET i == IndexFrom(s, NL, 1)
    IN  IF i = 0 THEN <<s>>
        ELSE <<SubSeq(s, 1, i - 1)>> \o Split(SubSeq(s, i + 1, Len(s)))

RECURSIVE Join(_)
Join(lines) ==
    IF lines = <<>> THEN <<>>
    ELSE IF Len(lines) = 1 THEN lines[1]
    ELSE lines[1] \o <<NL>> \o Join(Tail(lines))

RECURSIVE LStrip(_)
LStrip(s) ==
    IF s # <<>> /\ s[1] = " " THEN LStrip(Tail(s)) ELSE s

RECURSIVE RStrip(_)
RStrip(s) ==
    IF s # <<>> /\ s[Len(s)] = " " THEN RStrip(SubSeq(s, 1, Len(s) - 1)) ELSE s

Strip(s) == RStrip(LStrip(s))

StartsWith(s, p) == Len(s) >= Len(p) /\ SubSeq(s, 1, Len(p)) = p

EndsWith(s, p) ==
    Len(s) >= Len(p) /\ SubSeq(s, Len(s) - Len(p) + 1, Len(s)) = p

Contains(s, p) ==
    \E i \in 1..(Len(s) - Len(p) + 1) : SubSeq(s, i, i + Len(p) - 1) = p

HeaderToken == <<"#", "#">>

-----------------------------------------------------------------------------
(* Configuration *)

SECTION_MM == <<"#", "#", " ", "M+M">>
SECTION_CLAUDE == <<"#", "#", " ", "Claude code stuff">>

RESEARCH_DIR == "research/"
OUTPUT_DIR == "output/"

ResearchHeader == <<" ", " ", "*", " ", "[", "Research", "]">>
OutputHeader == <<" ", " ", "*", " ", "[", "Output", "]">>
ResearchHeaderText == <<"*", " ", "[", "Research", "]">>
OutputHeaderText == <<"*", " ", "[", "Output", "]">>

-----------------------------------------------------------------------------
(* find_markdown_files *)

\* code point of the first character of an element
Ord(c) ==
    CASE c = " " -> 32
      [] c = ")" -> 41
      [] c = "-" -> 45
      [] c = ".md" -> 46
      [] c = "_" -> 95
      [] c = "a" -> 97
      [] c = "b" -> 98
      [] c = "output/" -> 111
      [] c = "research/" -> 114
      [] OTHER -> 0

RECURSIVE LexLess(_, _)
LexLess(s, t) ==
    IF t = <<>> THEN FALSE
    ELSE IF s = <<>> THEN TRUE
    ELSE IF s[1] = t[1] THEN LexLess(Tail(s), Tail(t))
    ELSE Ord(s[1]) < Ord(t[1])

RECURSIVE Sorted(_)
Sorted(S) ==
    IF S = {} THEN <<>>
    ELSE LET m == CHOOSE x \in S : \A y \in S \ {x} : LexLess(x, y)
         IN  <<m>> \o Sorted(S \ {m})

find_markdown_files(dirname, names) ==
    Sorted({<<dirname>> \o n : n \in {m \in names : EndsWith(m, <<".md">>)}})

-----------------------------------------------------------------------------
(* filename_to_title *)

RECURSIVE LastIndex(_, _, _)
LastIndex(s, c, i) ==
    IF i = 0 THEN 0
    ELSE IF s[i] = c THEN i
    ELSE LastIndex(s, c, i - 1)

\* Path(filepath).stem
Stem(filepath) ==
    LET name == IF filepath # <<>> /\ filepath[1] \in {RESEARCH_DIR, OUTPUT_DIR}
                THEN Tail(filepath) ELSE filepath
        dot  == LastIndex(name, ".md", Len(name))
    IN  IF dot <= 1 THEN name ELSE SubSeq(name, 1, dot - 1)

Replace(s, old, new) == [i \in 1..Len(s) |-> IF s[i] = old THEN new ELSE s[i]]

Cased(c) == c \in {"a", "b", "o", "r", "A", "B", "O", "R", ".md", ".Md"}

Upper(c) ==
    CASE c = "a" -> "A" [] c = "b" -> "B" [] c = "o" -> "O" [] c = "r" -> "R"
      [] c = ".md" -> ".Md" [] OTHER -> c

Lower(c) ==
    CASE c = "A" -> "a" [] c = "B" -> "b" [] c = "O" -> "o" [] c = "R" -> "r"
      [] c = ".md" -> ".Md" [] OTHER -> c

\* str.title
RECURSIVE TitleFrom(_, _)
TitleFrom(s, prevCased) ==
    IF s = <<>> THEN <<>>
    ELSE <<IF prevCased THEN Lower(s[1]) ELSE Upper(s[1])>>
         \o TitleFrom(Tail(s), Cased(s[1]))

filename_to_title(filepath) ==
    TitleFrom(Replace(Replace(Stem(filepath), "-", " "), "_", " "), FALSE)

-----------------------------------------------------------------------------
(* extract_existing_links: re.finditer(r'\[.*?\]\((.*?\.md)\)', content) *)

\* (.*?\.md)\) tried from position k, the group having started at p
RECURSIVE PathFrom(_, _, _)
PathFrom(s, p, k) ==
    IF k + 1 <= Len(s) /\ s[k] = ".md" /\ s[k + 1] = ")"
    THEN [found |-> TRUE, group |-> SubSeq(s, p, k), last |-> k + 1]
    ELSE IF k > Len(s) \/ s[k] = NL
    THEN [found |-> FALSE, group |-> <<>>, last |-> 0]
    ELSE PathFrom(s, p, k + 1)

\* .*?\]\( ... tried from position j
RECURSIVE LabelFrom(_, _)
LabelFrom(s, j) ==
    LET here == IF j + 1 <= Len(s) /\ s[j] = "]" /\ s[j + 1] = "("
                THEN PathFrom(s, j + 2, j + 2)
                ELSE [found |-> FALSE, group |-> <<>>, last |-> 0]
    IN  IF here.found THEN here
        ELSE IF j > Len(s) \/ s[j] = NL THEN here
        ELSE LabelFrom(s, j + 1)

RECURSIVE FindLinks(_, _)
FindLinks(s, i) ==
    IF i > Len(s) THEN {}
    ELSE IF s[i] # "[" THEN FindLinks(s, i + 1)
    ELSE LET m == LabelFrom(s, i + 1)
         IN  IF m.found THEN {m.group} \cup FindLinks(s, m.last + 1)
             ELSE FindLinks(s, i + 1)

extract_existing_links(text) == FindLinks(text, 1)

-----------------------------------------------------------------------------
(* create_entry *)

RECURSIVE Indent(_)
Indent(level) == IF level = 0 THEN <<>> ELSE <<" ", " ">> \o Indent(level - 1)

create_entry(filepath, indent_level) ==
    Indent(indent_level) \o <<"*", " ", "[">> \o filename_to_title(filepath)
        \o <<"]", "(">> \o filepath \o <<")">>

-----------------------------------------------------------------------------
(* parse_summary_structure *)

EmptyStructure ==
    [before_mm |-> <<>>, mm_section |-> <<>>, between_sections |-> <<>>,
     claude_section |-> <<>>, after_claude |-> <<>>]

\* variant of NextSection: marker B opens its section whether or not marker A
\* was seen
NextSectionUnguarded(stripped, current_section, mm_found) ==
    IF stripped = SECTION_MM THEN "mm_section"
    ELSE IF stripped = SECTION_CLAUDE THEN "claude_section"
    ELSE IF current_section = "mm_section" /\ StartsWith(stripped, HeaderToken)
         THEN "between_sections"
    ELSE IF current_section = "claude_section" /\ StartsWith(stripped, HeaderToken)
         THEN "after_claude"
    ELSE current_section

\* the section-transition chain of the loop body
NextSection(stripped, current_section, mm_found) ==
    IF stripped = SECTION_MM THEN "mm_section"
    ELSE IF stripped = SECTION_CLAUDE
         THEN (IF mm_found THEN "claude_section" ELSE "before_mm")
    ELSE IF current_section = "mm_section" /\ StartsWith(stripped, HeaderToken)
         THEN "between_sections"
    ELSE IF current_section = "claude_section" /\ StartsWith(stripped, HeaderToken)
         THEN "after_claude"
    ELSE current_section

RECURSIVE ParseLoop(_, _, _, _, _)
ParseLoop(lines, i, current_section, mm_found, structure) ==
    IF i > Len(lines) THEN structure
    ELSE LET stripped == Strip(lines[i])
             section  == NextSection(stripped, current_section, mm_found)
         IN  ParseLoop(lines, i + 1, section,
                       mm_found \/ stripped = SECTION_MM,
                       [structure EXCEPT ![section] = Append(@, lines[i])])

parse_summary_structure(text) ==
    ParseLoop(Split(text), 1, "before_mm", FALSE, EmptyStructure)

-----------------------------------------------------------------------------
(* insert_research_output_sections *)

\* variant of NewFiles: the existing links are not consulted
NewFilesUnfiltered(files, existing_files) == files

\* [f for f in files if f not in existing_files]
NewFiles(files, existing_files) ==
    SelectSeq(files, LAMBDA f : f \notin existing_files)

\* variant of HasHeader: the header is never found
HasHeaderNever(mm_section_lines, header) == FALSE

\* any(header in line for line in mm_section_lines)
HasHeader(mm_section_lines, header) ==
    \E i \in 1..Len(mm_section_lines) : Contains(mm_section_lines[i], header)

RECURSIVE InsertionIndex(_, _)
InsertionIndex(mm_section_lines, i) ==
    IF i > Len(mm_section_lines) THEN Len(mm_section_lines) + 1
    ELSE IF i > 1 /\ StartsWith(Strip(mm_section_lines[i]), HeaderToken) THEN i
    ELSE InsertionIndex(mm_section_lines, i + 1)

Entries(files) == [i \in 1..Len(files) |-> create_entry(files[i], 2)]

\* the lines appended for one directory
Subsection(mm_section_lines, new_files, header, header_text) ==
    IF new_files = <<>> THEN <<>>
    ELSE (IF HasHeader(mm_section_lines, header_text) THEN <<>> ELSE <<header>>)
         \o Entries(new_files)

insert_research_output_sections(structure, rfiles, ofiles, existing_files) ==
    LET mm_section_lines == structure.mm_section
        \* 1-based: the lines before position at are kept in front
        at == InsertionIndex(mm_section_lines, 1)
    IN  structure.before_mm
        \o SubSeq(mm_section_lines, 1, at - 1)
        \o Subsection(mm_section_lines, NewFiles(rfiles, existing_files),
                      ResearchHeader, ResearchHeaderText)
        \o Subsection(mm_section_lines, NewFiles(ofiles, existing_files),
                      OutputHeader, OutputHeaderText)
        \o SubSeq(mm_section_lines, at, Len(mm_section_lines))
        \o structure.between_sections
        \o structure.claude_section
        \o structure.after_claude

-----------------------------------------------------------------------------
(* update_summary *)

\* variant of EnsureNewline: nothing is appended
EnsureNewlineMissing(text) == text

\* if not updated_content.endswith('\n'): updated_content += '\n'
EnsureNewline(text) ==
    IF EndsWith(text, <<NL>>) THEN text ELSE text \o <<NL>>

\* variant of DryRunReturns: the flag is not looked at
DryRunIgnored(d) == FALSE

\* if dry_run: ... return True
DryRunReturns(d) == d

UpdatedLines(text, rfiles, ofiles) ==
    insert_research_output_sections(parse_summary_structure(text), rfiles,
                                    ofiles, extract_existing_links(text))

\* main: sys.exit(0 if success else 1)
ExitStatus(value) == IF value = "True" THEN 0 ELSE 1

Return(value, nondry) ==
    /\ pc' = "idle"
    /\ ret' = value
    /\ last' = (IF nondry THEN "run" ELSE "dry")
    /\ dry_run' = FALSE
    /\ content' = NoText
    /\ research_files' = <<>>
    /\ output_files' = <<>>
    /\ updated_content' = NoText

\* from the call up to the parse of the structure
Begin(d) ==
    /\ pc = "idle"
    /\ d \/ writes < MaxWrites
    /\ UNCHANGED <<summary, backup, tmp, research, output, writes, initial>>
    /\ IF summary = NoFile THEN Return("False", ~d)
       ELSE LET rf == find_markdown_files(RESEARCH_DIR, research)
                of == find_markdown_files(OUTPUT_DIR, output)
                existing_files == extract_existing_links(summary)
                new_research == NewFiles(rf, existing_files)
                new_output == NewFiles(of, existing_files)
            IN  IF rf = <<>> /\ of = <<>> THEN Return("True", ~d)
                ELSE IF new_research = <<>> /\ new_output = <<>>
                     THEN Return("True", ~d)
                ELSE IF DryRunReturns(d) THEN Return("True", ~d)
                ELSE /\ pc' = "backup"
                     /\ dry_run' = d
                     /\ content' = summary
                     /\ research_files' = rf
                     /\ output_files' = of
                     /\ UNCHANGED <<updated_content, ret, last>>

\* variant of WriteBackup: the backup is written from the generated text
WriteBackupLate ==
    /\ pc = "backup"
    /\ updated_content' =
           EnsureNewline(Join(UpdatedLines(content, research_files, output_files)))
    /\ backup' = updated_content'
    /\ pc' = "write"
    /\ UNCHANGED <<summary, tmp, research, output, dry_run, content,
                   research_files, output_files, ret, writes, last, initial>>

\* the backup is written and the new text is generated
WriteBackup ==
    /\ pc = "backup"
    /\ backup' = content
    /\ updated_content' =
           EnsureNewline(Join(UpdatedLines(content, research_files, output_files)))
    /\ pc' = "write"
    /\ UNCHANGED <<summary, tmp, research, output, dry_run, content,
                   research_files, output_files, ret, writes, last, initial>>

\* with open(temp_path, 'w') as f: f.write(updated_content)
WriteTmp ==
    /\ pc = "write"
    /\ tmp' = updated_content
    /\ pc' = "rename"
    /\ UNCHANGED <<summary, backup, research, output, dry_run, locals, ret,
                   writes, last, initial>>

PartialWrites(text) == {SubSeq(text, 1, 0), SubSeq(text, 1, Len(text) \div 2)}

\* open() raises (the file is not created), or write() raises part-way
WriteTmpFails ==
    /\ pc = "write"
    /\ \/ tmp' = tmp
       \/ \E part \in PartialWrites(updated_content) : tmp' = part
    /\ pc' = "except"
    /\ UNCHANGED <<summary, backup, research, output, dry_run, locals, ret,
                   writes, last, initial>>

\* temp_path.rename(SUMMARY_PATH), the report and return True
Rename ==
    /\ pc = "rename"
    /\ summary' = tmp
    /\ tmp' = NoFile
    /\ writes' = writes + 1
    /\ Return("True", TRUE)
    /\ UNCHANGED <<backup, research, output, initial>>

\* temp_path.rename(SUMMARY_PATH) raises
RenameFails ==
    /\ pc = "rename"
    /\ pc' = "except"
    /\ UNCHANGED <<fsvars, research, output, dry_run, locals, ret, writes,
                   last, initial>>

\* variant of Except: the temporary file is left behind
ExceptKeepsTmp ==
    /\ pc = "except"
    /\ tmp' = tmp
    /\ Return("False", TRUE)
    /\ UNCHANGED <<summary, backup, research, output, writes, initial>>

\* except Exception: if temp_path.exists(): temp_path.unlink(); return False
Except ==
    /\ pc = "except"
    /\ tmp' = NoFile
    /\ Return("False", TRUE)
    /\ UNCHANGED <<summary, backup, research, output, writes, initial>>

-----------------------------------------------------------------------------
(* The environment: the outline the tool starts from and the source files *)

A_LINE == SECTION_MM
B_LINE == SECTION_CLAUDE
H_LINE == <<"#", "#", " ", "a">>
E_LINE == <<"*", " ", "[", "a", "]", "(", "research/", "a", ".md", ")">>

LineAlphabet == {A_LINE, B_LINE, H_LINE, E_LINE}

\* up to n lines, followed by up to MaxTrailing newlines
Outlines(n) ==
    {Join(ls) \o [i \in 1..k |-> NL] :
        ls \in UNION {[1..m -> LineAlphabet] : m \in 1..n},
        k \in 0..MaxTrailing}

\* research/a.md, research/b.md and output/a.md).md
ResearchNames == {<<"a", ".md">>, <<"b", ".md">>}
OutputNames == {<<"a", ".md", ")", ".md">>}

AddFile ==
    /\ pc = "idle"
    /\ \/ \E n \in ResearchNames \ research :
             research' = research \cup {n} /\ output' = output
       \/ \E n \in OutputNames \ output :
             output' = output \cup {n} /\ research' = research
    /\ last' = "add"
    /\ ret' = "none"
    /\ UNCHANGED <<fsvars, pc, dry_run, locals, writes, initial>>

InitWith(outlines) ==
    /\ summary \in outlines \cup {NoFile}
    /\ initial = summary
    /\ backup = NoFile
    /\ tmp = NoFile
    /\ research = {}
    /\ output = {}
    /\ pc = "idle"
    /\ dry_run = FALSE
    /\ content = NoText
    /\ research_files = <<>>
    /\ output_files = <<>>
    /\ updated_content = NoText
    /\ ret = "none"
    /\ writes = 0
    /\ last = "init"

Next ==
    \/ \E d \in BOOLEAN : Begin(d)
    \/ WriteBackup
    \/ WriteTmp
    \/ WriteTmpFails
    \/ Rename
    \/ RenameFails
    \/ Except
    \/ AddFile

\* runs and additions of source files in any order, from the shorter outlines
Init == InitWith(Outlines(MaxLines - 1))

Spec == Init /\ [][Next]_vars

\* the events up to the return of the first non-dry run, from every outline
InitOneRun == InitWith(Outlines(MaxLines))

BeginFirst(d) == last # "run" /\ Begin(d)

AddFileBefore == last # "run" /\ AddFile

NextOneRun ==
    \/ \E d \in BOOLEAN : BeginFirst(d)
    \/ WriteBackup
    \/ WriteTmp
    \/ WriteTmpFails
    \/ Rename
    \/ RenameFails
    \/ Except
    \/ AddFileBefore

SpecOneRun == InitOneRun /\ [][NextOneRun]_vars

-----------------------------------------------------------------------------
(* What the running update_summary has computed *)

Range(f) == {f[i] : i \in 1..Len(f)}

\* parse_summary_structure has just returned in the current run
ParseCalled == pc = "backup"

\* insert_research_output_sections has just returned in the current run
InsertCalled == pc = "write"

RunLines == Split(content)
RunStructure == parse_summary_structure(content)
RunExisting == extract_existing_links(content)
RunNewResearch == NewFiles(research_files, RunExisting)
RunNewOutput == NewFiles(output_files, RunExisting)
RunOut == UpdatedLines(content, research_files, output_files)

Count(lines, P(_)) == Cardinality({i \in 1..Len(lines) : P(lines[i])})

TrailingNewlines(text) ==
    IF text = <<>> \/ text[Len(text)] # NL THEN 0
    ELSE Len(text) - Len(SubSeq(text, 1,
             CHOOSE k \in 0..Len(text) :
                 /\ \A j \in (k + 1)..Len(text) : text[j] = NL
                 /\ k > 0 => text[k] # NL))

-----------------------------------------------------------------------------
(* C1 *)

\* the last event was a non-dry run that returned True
Settled == pc = "idle" /\ last = "run" /\ ret = "True"

\* C1: a run that follows a successful non-dry run, with no source file added
\* in between, ends at once and leaves the outline and the backup as they are.
C1_SecondRunChangesNothing ==
    [][Settled => (pc' = "idle" /\ summary' = summary /\ backup' = backup)]_vars

-----------------------------------------------------------------------------
(* C3 *)

Concatenated(structure) ==
    structure.before_mm \o structure.mm_section \o structure.between_sections
        \o structure.claude_section \o structure.after_claude

\* C3: the five segments of parse_summary_structure, concatenated in order,
\* are the line sequence that was parsed.
C3_SegmentsRoundTrip ==
    ParseCalled => Concatenated(RunStructure) = RunLines

-----------------------------------------------------------------------------
(* C4 *)

\* C4 as stated: the text written to the outline ends with exactly one newline.
C4_ExactlyOneTrailingNewline ==
    pc = "rename" => TrailingNewlines(tmp) = 1

\* C4 as amended: the text written to the outline ends with a newline (one is
\* appended when the assembled text ends with none, none is ever removed).
C4_EndsWithNewline ==
    pc = "rename" =>
        /\ TrailingNewlines(tmp) >= 1
        /\ TrailingNewlines(tmp) >= TrailingNewlines(Join(RunOut))

\* a run is about to replace the outline and the assembled text had no
\* trailing newline of its own
C4_Witness ==
    /\ pc = "rename"
    /\ TrailingNewlines(Join(RunOut)) = 0
    /\ tmp = Join(RunOut) \o <<NL>>

-----------------------------------------------------------------------------
(* C5 *)

\* C5: once an exception was raised in the temp-write or rename step, the run
\* ends with the outline holding the text read at the start of the run, no
\* temporary file, return value False and exit status 1.
C5_WriteFailure ==
    [][pc = "except" =>
          /\ summary = content
          /\ pc' = "idle"
          /\ summary' = summary
          /\ tmp' = NoFile
          /\ ret' = "False"
          /\ ExitStatus(ret') = 1]_vars

\* a run has ended in the exception handler after it wrote its backup
C5_Witness ==
    /\ pc = "idle"
    /\ last = "run"
    /\ ret = "False"
    /\ summary # NoFile
    /\ backup = summary
    /\ tmp = NoFile

-----------------------------------------------------------------------------
(* C2 *)

IsGroupHeader(line) == Strip(line) \in {ResearchHeaderText, OutputHeaderText}

\* the group header that the line at position i stands under, <<>> if none
HeaderAbove(lines, i) ==
    LET above == {j \in 1..(i - 1) : IsGroupHeader(lines[j])}
    IN  IF above = {} THEN <<>>
        ELSE Strip(lines[CHOOSE j \in above : \A k \in above : k <= j])

PlacedUnder(lines, entry, header_text) ==
    \E i \in 1..Len(lines) :
        lines[i] = entry /\ HeaderAbove(lines, i) = header_text

ExactlyOneNewEntry(filepath) ==
    Count(RunOut, LAMBDA l : l = create_entry(filepath, 2))
        = Count(RunLines, LAMBDA l : l = create_entry(filepath, 2)) + 1

InDiscoveryOrder(lines, files) ==
    \A a, b \in 1..Len(files) :
        a < b => \E i, j \in 1..Len(lines) :
                    /\ i < j
                    /\ lines[i] = create_entry(files[a], 2)
                    /\ lines[j] = create_entry(files[b], 2)

\* C2: the result of insert_research_output_sections holds exactly one new
\* entry for each discovered path that is not linked, research entries stand
\* under the Research header and output entries under the Output header, and
\* the new entries of a group are in discovery order.
C2_NewEntriesUnderTheirHeader ==
    InsertCalled =>
        /\ \A f \in Range(RunNewResearch) :
              /\ ExactlyOneNewEntry(f)
              /\ PlacedUnder(RunOut, create_entry(f, 2), ResearchHeaderText)
        /\ \A f \in Range(RunNewOutput) :
              /\ ExactlyOneNewEntry(f)
              /\ PlacedUnder(RunOut, create_entry(f, 2), OutputHeaderText)
        /\ InDiscoveryOrder(RunOut, RunNewResearch)
        /\ InDiscoveryOrder(RunOut, RunNewOutput)

-----------------------------------------------------------------------------
(* C6 *)

\* C6: a dry run ends in its first step, leaves the outline, the backup and
\* the temporary file as they are, and returns True when the outline exists.
C6_DryRunChangesNothing ==
    [][Begin(TRUE) =>
          /\ pc' = "idle"
          /\ summary' = summary
          /\ backup' = backup
          /\ tmp' = tmp
          /\ (summary # NoFile => ret' = "True")]_vars

\* a dry run has returned while a research file and an output file are unlinked
C6_Witness ==
    /\ pc = "idle"
    /\ last = "dry"
    /\ ret = "True"
    /\ summary # NoFile
    /\ NewFiles(find_markdown_files(RESEARCH_DIR, research),
                extract_existing_links(summary)) # <<>>
    /\ NewFiles(find_markdown_files(OUTPUT_DIR, output),
                extract_existing_links(summary)) # <<>>
    /\ backup = NoFile
    /\ tmp = NoFile

-----------------------------------------------------------------------------
(* C7 *)

\* C7: the outline is replaced only by the rename step of a run, when the
\* backup holds the text that run read from the outline; the backup changes
\* only in a run that has something to add, and becomes that text.
C7_BackupPrecedesOverwrite ==
    [][/\ summary' # summary =>
              /\ pc = "rename"
              /\ summary = content
              /\ backup = content
       /\ backup' # backup =>
              /\ pc = "backup"
              /\ summary = content
              /\ backup' = content
              /\ (RunNewResearch # <<>> \/ RunNewOutput # <<>>)]_vars

\* the outline was replaced twice: the second run replaced the first backup
C7_Witness ==
    /\ pc = "idle"
    /\ last = "run"
    /\ ret = "True"
    /\ writes = 2
    /\ backup # NoFile
    /\ backup # initial
    /\ backup # summary

-----------------------------------------------------------------------------
(* C8 *)

\* the line is a link whose target is the path
LinksTo(line, filepath) == EndsWith(line, <<"]", "(">> \o filepath \o <<")">>)

Discovered == Range(research_files) \cup Range(output_files)

-----------------------------------------------------------------------------
(* C9 *)

NoMarkerA(text) ==
    LET lines == Split(text)
    IN  \A i \in 1..Len(lines) : Strip(lines[i]) # SECTION_MM

\* the lines a run adds when marker A's body is empty
AppendedBlock ==
    (IF RunNewResearch = <<>> THEN <<>>
     ELSE <<ResearchHeader>> \o Entries(RunNewResearch))
    \o (IF RunNewOutput = <<>> THEN <<>>
        ELSE <<OutputHeader>> \o Entries(RunNewOutput))

\* C9 as stated: without marker A every line is in the before-A segment and
\* the result of insert_research_output_sections is the outline's lines.
C9_NoMarkerNoInsertion ==
    (InsertCalled /\ NoMarkerA(content)) =>
        /\ RunStructure.before_mm = RunLines
        /\ RunOut = RunLines

\* C9 as amended: without marker A every line is in the before-A segment and
\* the result is the outline's lines followed by a Research header and the new
\* research entries, then an Output header and the new output entries.
C9_NoMarkerAppendsAtEnd ==
    (InsertCalled /\ NoMarkerA(content)) =>
        /\ RunStructure.before_mm = RunLines
        /\ RunOut = RunLines \o AppendedBlock

\* a run adds research entries to an outline that has marker B but not A
C9_Witness ==
    /\ InsertCalled
    /\ NoMarkerA(content)
    /\ \E i \in 1..Len(RunLines) : Strip(RunLines[i]) = SECTION_CLAUDE
    /\ RunNewResearch # <<>>
    /\ RunOut # RunLines

-----------------------------------------------------------------------------
(* C10 *)

HeaderCount(text, header) ==
    LET lines == Split(text) IN Count(lines, LAMBDA l : l = header)

NoGroupHeader(text) ==
    LET lines == Split(text)
    IN  \A i \in 1..Len(lines) :
            /\ ~Contains(lines[i], ResearchHeaderText)
            /\ ~Contains(lines[i], OutputHeaderText)

StartedWithMarkerAOnly ==
    initial # NoFile /\ ~NoMarkerA(initial) /\ NoGroupHeader(initial)

\* C10: an outline that started with marker A and no group header never holds
\* more than one "  * [Research]" line nor more than one "  * [Output]" line.
C10_HeaderEmittedOnce ==
    StartedWithMarkerAOnly =>
        /\ HeaderCount(summary, ResearchHeader) <= 1
        /\ HeaderCount(summary, OutputHeader) <= 1

\* two runs have added entries of both groups to such an outline
C10_Witness ==
    /\ StartedWithMarkerAOnly
    /\ pc = "idle"
    /\ writes = 2
    /\ HeaderCount(summary, ResearchHeader) = 1
    /\ HeaderCount(summary, OutputHeader) = 1

====
